---- MODULE Spec2Model ----
(***************************************************************************)
(* Model of src/downloader.py: a resumable, de-duplicating, thread-pooled  *)
(* downloader.                                                             *)
(*                                                                         *)
(* Text (file names, header values) is a sequence of tokens: the words     *)
(* "image", "webp", ... , the separators "_" "." ";" and the characters    *)
(* "0".."9" "-" "+".  Byte strings (file contents, response bodies) are    *)
(* sequences of byte tokens.                                               *)
(***************************************************************************)
EXTENDS Integers, Sequences, FiniteSets, TLC

\* ------------------------------------------------------------------ bounds
MaxImages == 2
MaxThreads == 2
MaxExisting == 1
MaxScanFiles == 3
MaxRuns == 2

\* ------------------------------------------------------- text primitives
Digits == {"0", "1", "2", "3", "4", "5", "6", "7", "8", "9"}

DigitVal(d) ==
  CASE d = "0" -> 0 [] d = "1" -> 1 [] d = "2" -> 2 [] d = "3" -> 3
    [] d = "4" -> 4 [] d = "5" -> 5 [] d = "6" -> 6 [] d = "7" -> 7
    [] d = "8" -> 8 [] d = "9" -> 9

DigitChar(n) ==
  CASE n = 0 -> "0" [] n = 1 -> "1" [] n = 2 -> "2" [] n = 3 -> "3"
    [] n = 4 -> "4" [] n = 5 -> "5" [] n = 6 -> "6" [] n = 7 -> "7"
    [] n = 8 -> "8" [] n = 9 -> "9"

Front(s) == SubSeq(s, 1, Len(s) - 1)

\* str.startswith / str.endswith
StartsWith(s, p) == Len(s) >= Len(p) /\ SubSeq(s, 1, Len(p)) = p

EndsWith(s, p) == Len(s) >= Len(p) /\ SubSeq(s, Len(s) - Len(p) + 1, Len(s)) = p

\* str.find(tok): the first position of tok, 0 when absent (Python: -1)
Find(s, tok) ==
  IF \E k \in 1..Len(s) : s[k] = tok
  THEN CHOOSE k \in 1..Len(s) : s[k] = tok /\ \A j \in 1..(k - 1) : s[j] # tok
  ELSE 0

\* str.split(sep): the pieces between the separators, at least one piece
RECURSIVE Split(_, _)
Split(s, sep) ==
  LET k == Find(s, sep)
  IN  IF k = 0 THEN <<s>>
      ELSE <<SubSeq(s, 1, k - 1)>> \o Split(SubSeq(s, k + 1, Len(s)), sep)

\* str.strip(ch): ch removed from both ends
RECURSIVE Strip(_, _)
Strip(s, ch) ==
  IF s # <<>> /\ s[1] = ch THEN Strip(Tail(s), ch)
  ELSE IF s # <<>> /\ s[Len(s)] = ch THEN Strip(Front(s), ch)
  ELSE s

\* int(text) succeeds on: blanks around an optional sign and at least one
\* digit; anything else raises ValueError
IsIntLiteral(s) ==
  LET t == Strip(s, " ")
      body == IF t # <<>> /\ t[1] \in {"-", "+"} THEN Tail(t) ELSE t
  IN  body # <<>> /\ \A k \in 1..Len(body) : body[k] \in Digits

RECURSIVE DigitsValue(_)
DigitsValue(s) ==
  IF s = <<>> THEN 0 ELSE DigitsValue(Front(s)) * 10 + DigitVal(s[Len(s)])

\* int(text) of a text that IsIntLiteral
ParseInt(s) ==
  LET t == Strip(s, " ")
  IN  IF t[1] = "-" THEN 0 - DigitsValue(Tail(t))
      ELSE IF t[1] = "+" THEN DigitsValue(Tail(t))
      ELSE DigitsValue(t)

\* str(i) of an f-string: decimal digits, "-" first for a negative number
RECURSIVE NatToStr(_)
NatToStr(n) ==
  IF n < 10 THEN <<DigitChar(n)>> ELSE NatToStr(n \div 10) \o <<DigitChar(n % 10)>>

IntToStr(i) == IF i < 0 THEN <<"-">> \o NatToStr(0 - i) ELSE NatToStr(i)

\* os.path.splitext(name)[0]: the name up to its last dot; a name with no
\* dot, or only leading dots before it, is returned whole
SplitExtRoot(name) ==
  LET dots == {k \in 1..Len(name) : name[k] = "."}
      last == CHOOSE k \in dots : \A j \in dots : j <= k
  IN  IF dots = {} \/ (\A j \in 1..(last - 1) : name[j] = ".") THEN name
      ELSE SubSeq(name, 1, last - 1)

\* str.lower on the tokens of a content type
Lower(tok) ==
  CASE tok = "IMAGE/WEBP" -> "image/webp"
    [] tok = "Image/WebP" -> "image/webp"
    [] OTHER -> tok

\* hashlib.sha256(bytes).hexdigest(): a digest is taken to identify its
\* bytes (no collisions)
Sha256(bytes) == [sha256 |-> bytes]

Max(S) == CHOOSE m \in S : \A x \in S : x <= m

\* ------------------------------------------------------------ file names
\* f"image_{i}.webp"
DefaultName(i) == <<"image", "_">> \o IntToStr(i) \o <<".", "webp">>

\* f"{os.path.splitext(filename_from_header)[0]}_{i}.webp"
HeaderName(fromHeader, i) ==
  SplitExtRoot(fromHeader) \o <<"_">> \o IntToStr(i) \o <<".", "webp">>

\* ------------------------------------------------------------- responses
\* What requests.get(image_url, stream=True, timeout=10) followed by
\* raise_for_status() can give: an exception, or a response with headers
\* (a case-insensitive mapping) and a body that is streamed.
ContentDispositions ==
  { <<"attachment">>,
    <<"attachment", ";", "filename=", "\"", "foo", ".", "png", "\"">>,
    <<"inline", ";", "filename=", "image", ".", "jpg">> }

ContentTypes == { <<"image/jpeg">>, <<"Image/WebP">> }

Bytes == {"a", "b"}

Bodies == {<<>>} \cup {<<b>> : b \in Bytes}

HeaderSets ==
  { [h \in {} |-> <<>>] }
  \cup { [h \in {"content-type"} |-> ct] : ct \in ContentTypes }
  \cup { [h \in {"content-disposition"} |-> cd] : cd \in ContentDispositions }
  \cup { [h \in {"content-disposition", "content-type"} |->
            IF h = "content-type" THEN ct ELSE cd] :
          ct \in ContentTypes, cd \in ContentDispositions }

Responses == [headers : HeaderSets, body : Bodies]

\* lines 28-42: the file name a response gets
FileName(headers, i) ==
  LET cd == headers["content-disposition"]
      filename_start == Find(cd, "filename=")
      filename_from_header ==
        Strip(SubSeq(cd, filename_start + 1, Len(cd)), "\"")
      named ==
        IF "content-disposition" \in DOMAIN headers
        THEN IF filename_start # 0
             THEN HeaderName(filename_from_header, i)
             ELSE DefaultName(i)
        ELSE DefaultName(i)
      content_type ==
        IF "content-type" \in DOMAIN headers THEN headers["content-type"] ELSE <<>>
  IN  IF ~(\E k \in 1..Len(content_type) : Lower(content_type[k]) = "image/webp")
      THEN DefaultName(i)
      ELSE named

\* ------------------------------------------------------------- directory
\* An entry of the output folder: a regular file (readable or not) with
\* its bytes, or a sub-directory.
FileEntry(bytes) == [kind |-> "file", readable |-> TRUE, bytes |-> bytes]

UnreadableEntry(bytes) == [kind |-> "file", readable |-> FALSE, bytes |-> bytes]

DirEntry == [kind |-> "dir", readable |-> TRUE, bytes |-> <<>>]

None == [none |-> TRUE]

\* lines 6-18: calculate_sha256(file_path)
CalculateSha256(d, name) ==
  IF name \notin DOMAIN d THEN None                  \* FileNotFoundError
  ELSE IF d[name].kind # "file" \/ ~d[name].readable THEN None  \* Exception
  ELSE Sha256(d[name].bytes)

\* line 97: the names the index is read from
ExistingFiles(d) ==
  { f \in DOMAIN d :
      StartsWith(f, <<"image", "_">>) /\ EndsWith(f, <<".", "webp">>) }

\* line 103: filename.split('_')[1].split('.')[0]
IndexText(f) == Split(Split(f, "_")[2], ".")[1]

\* lines 100-106: the indices that parse
ExistingIndices(d) ==
  { ParseInt(IndexText(f)) :
      f \in { g \in ExistingFiles(d) : IsIntLiteral(IndexText(g)) } }

\* StartIndex as it would be if the files were counted instead of the
\* largest index being taken
StartIndexByCount(d) ==
  IF ExistingFiles(d) # {}
  THEN IF ExistingIndices(d) # {} THEN Cardinality(ExistingIndices(d)) + 1 ELSE 1
  ELSE 1

\* lines 98-113
StartIndex(d) ==
  IF ExistingFiles(d) # {}
  THEN IF ExistingIndices(d) # {} THEN Max(ExistingIndices(d)) + 1 ELSE 1
  ELSE 1

\* ExistingHashes as it would be if only the files the index is read from
\* were hashed
ExistingHashesOfImages(d) ==
  { CalculateSha256(d, f) :
      f \in { g \in ExistingFiles(d) :
                d[g].kind = "file" /\ CalculateSha256(d, g) # None } }

\* lines 118-125
ExistingHashes(d) ==
  { CalculateSha256(d, f) :
      f \in { g \in DOMAIN d :
                d[g].kind = "file" /\ CalculateSha256(d, g) # None } }

\* ----------------------------------------------------------------- state
VARIABLES
  num_images,       \* argument of download_picre_varied_images_resume
  max_threads,      \* argument of download_picre_varied_images_resume
  folder_exists,    \* os.path.exists(output_folder)
  disk,             \* the entries of output_folder: name -> entry
  pc,               \* where the calling thread is
  start_index,      \* line 109/111/113
  existing_hashes,  \* the set shared by all tasks (line 118)
  next_i,           \* the next i of range(start_index, start_index + num_images)
  work_queue,       \* the executor's queue of submitted, not yet started tasks
  futures,          \* i -> the state of the future submit returned
  threads,          \* worker thread -> what it is running
  stdout,           \* i -> the line the task printed
  history,          \* i -> what the task did (for the properties only)
  run,              \* the number of the current run of the program
  disk0,            \* the folder as the current run found it (properties only)
  earlier_runs      \* what the runs before this one were given and did

vars ==
  << num_images, max_threads, folder_exists, disk, pc, start_index,
     existing_hashes, next_i, work_queue, futures, threads, stdout, history,
     run, disk0, earlier_runs >>

Workers == 1..MaxThreads

NoFunction == [x \in {} |-> 0]

Idle ==
  [pc |-> "idle", i |-> 0, file_path |-> <<>>, content_hash |-> None,
   body |-> <<>>, consumed |-> FALSE]

NoHistory ==
  [started |-> 0, requests |-> 0, fetch_failed |-> FALSE, digest |-> None,
   opened |-> {}, overwrote |-> {}, added |-> FALSE]

\* The values the arguments are drawn from (the function accepts any
\* integers; __main__ checks only num_threads > 0).
NumImagesInputs == (0 - 1)..MaxImages

MaxThreadsInputs == 0..MaxThreads

\* ------------------------------------------------------- initial folders
InitialNames ==
  { DefaultName(1),
    <<"foo", "_", "1", ".", "webp">>,
    <<"foo", "_", "2", ".", "webp">> }

InitialEntries == { FileEntry(<<"a">>), DirEntry }

\* the folders the start-up scan is checked on
ScanNames ==
  { DefaultName(3), DefaultName(7), DefaultName(10), DefaultName(0),
    DefaultName(0 - 5),
    <<"not", "_", "a", "_", "number", ".", "webp">>,
    <<"image", "_", "x", ".", "webp">>,
    <<"image", "_", ".", "webp">>,
    <<"image", "_", "0", "0", "8", ".", "webp">>,
    <<"image", "_", "5", "_", "old", ".", "webp">>,
    <<"image", "_", "9", ".", "bak", ".", "webp">>,
    <<"image", "_", "4", ".", "png">>,
    <<"foo", "_", "6", ".", "webp">>,
    <<"notes", ".", "txt">> }

ScanEntries ==
  { FileEntry(<<"a">>), FileEntry(<<"b">>), UnreadableEntry(<<"b">>), DirEntry }

Folders(names, entries, n) ==
  UNION { [S -> entries] : S \in { T \in SUBSET names : Cardinality(T) <= n } }

InitRun ==
  /\ pc = "start"
  /\ start_index = 0
  /\ existing_hashes = {}
  /\ next_i = 0
  /\ work_queue = <<>>
  /\ futures = NoFunction
  /\ threads = [w \in Workers |-> Idle]
  /\ stdout = NoFunction
  /\ history = NoFunction

Init ==
  /\ num_images \in NumImagesInputs
  /\ max_threads \in MaxThreadsInputs
  /\ folder_exists \in BOOLEAN
  /\ disk \in Folders(InitialNames, InitialEntries, MaxExisting)
  /\ (~folder_exists => disk = NoFunction)
  /\ run = 1
  /\ disk0 = disk
  /\ earlier_runs = <<>>
  /\ InitRun

\* ------------------------------------------------- the calling thread
\* MakeDirs as it would be if a failure to create the folder were ignored
\* and the run went on
MakeDirsIgnoringFailure ==
  /\ pc = "start"
  /\ \/ /\ folder_exists
        /\ pc' = "scan"
        /\ UNCHANGED folder_exists
     \/ /\ ~folder_exists
        /\ \E created \in BOOLEAN :
             /\ folder_exists' = created
             /\ pc' = "scan"
  /\ UNCHANGED << num_images, max_threads, disk, start_index, existing_hashes,
                  next_i, work_queue, futures, threads, stdout, history, run, disk0, earlier_runs >>

\* lines 87-92: the folder is created when it does not exist; makedirs may
\* raise OSError, which nothing catches
MakeDirs ==
  /\ pc = "start"
  /\ \/ /\ folder_exists
        /\ pc' = "scan"
        /\ UNCHANGED folder_exists
     \/ /\ ~folder_exists
        /\ \E created \in BOOLEAN :
             IF created
             THEN folder_exists' = TRUE /\ pc' = "scan"
             ELSE folder_exists' = FALSE /\ pc' = "aborted"
  /\ UNCHANGED << num_images, max_threads, disk, start_index, existing_hashes,
                  next_i, work_queue, futures, threads, stdout, history, run, disk0, earlier_runs >>

\* lines 96-126: the start index and the digests of the existing files
Scan ==
  /\ pc = "scan"
  /\ start_index' = StartIndex(disk)
  /\ existing_hashes' = ExistingHashes(disk)
  /\ pc' = "pool"
  /\ UNCHANGED << num_images, max_threads, folder_exists, disk, next_i,
                  work_queue, futures, threads, stdout, history, run, disk0, earlier_runs >>

\* line 130: ThreadPoolExecutor(max_workers) raises ValueError for
\* max_workers <= 0
CreatePool ==
  /\ pc = "pool"
  /\ IF max_threads <= 0
     THEN pc' = "aborted" /\ UNCHANGED next_i
     ELSE pc' = "submit" /\ next_i' = start_index
  /\ UNCHANGED << num_images, max_threads, folder_exists, disk, start_index,
                  existing_hashes, work_queue, futures, threads, stdout,
                  history, run, disk0, earlier_runs >>

\* lines 132-133: executor.submit(download_image, ..., i, existing_hashes)
Submit ==
  /\ pc = "submit"
  /\ next_i < start_index + num_images
  /\ work_queue' = Append(work_queue, next_i)
  /\ futures' = [j \in DOMAIN futures \cup {next_i} |->
                   IF j = next_i THEN "PENDING" ELSE futures[j]]
  /\ history' = [j \in DOMAIN history \cup {next_i} |->
                   IF j = next_i THEN NoHistory ELSE history[j]]
  /\ next_i' = next_i + 1
  /\ UNCHANGED << num_images, max_threads, folder_exists, disk, pc,
                  start_index, existing_hashes, threads, stdout, run, disk0,
                  earlier_runs >>

\* lines 133-136: the range is exhausted; the caller waits
Submitted ==
  /\ pc = "submit"
  /\ next_i >= start_index + num_images
  /\ pc' = "wait"
  /\ UNCHANGED << num_images, max_threads, folder_exists, disk, start_index,
                  existing_hashes, next_i, work_queue, futures, threads,
                  stdout, history, run, disk0, earlier_runs >>

\* Complete as it would be if the caller returned when the first future
\* is finished, without joining the workers
CompleteOnFirst ==
  /\ pc = "wait"
  /\ (DOMAIN futures = {} \/ \E j \in DOMAIN futures : futures[j] = "FINISHED")
  /\ pc' = "done"
  /\ UNCHANGED << num_images, max_threads, folder_exists, disk, start_index,
                  existing_hashes, next_i, work_queue, futures, threads,
                  stdout, history, run, disk0, earlier_runs >>

\* lines 136-138: wait(futures) returns when every future is finished, the
\* with block joins the workers, "Download complete." is printed
Complete ==
  /\ pc = "wait"
  /\ \A j \in DOMAIN futures : futures[j] = "FINISHED"
  /\ \A w \in Workers : threads[w].pc = "idle"
  /\ pc' = "done"
  /\ UNCHANGED << num_images, max_threads, folder_exists, disk, start_index,
                  existing_hashes, next_i, work_queue, futures, threads,
                  stdout, history, run, disk0, earlier_runs >>

\* ------------------------------------------------------ the worker threads
\* response.iter_content(chunk_size=8192) of a streamed response (requests,
\* models.py): the first iteration reads the body from the connection and
\* marks the content consumed; a call made after that raises
\* StreamConsumedError, which is a RequestException.
IterContent(body, consumed) ==
  IF consumed
  THEN [raised |-> TRUE, chunks |-> <<>>]
  ELSE [raised |-> FALSE, chunks |-> body]

\* the task returns: its line is printed, its future is finished, the
\* worker goes back to the queue
Returns(w, line) ==
  LET i == threads[w].i
  IN  /\ stdout' = [j \in DOMAIN stdout \cup {i} |->
                      IF j = i THEN line ELSE stdout[j]]
      /\ futures' = [futures EXCEPT ![i] = "FINISHED"]
      /\ threads' = [threads EXCEPT ![w] = Idle]

\* Take as it would be with a thread started for every submitted task,
\* whatever max_workers is
TakeUnbounded(w) ==
  /\ threads[w].pc = "idle"
  /\ work_queue # <<>>
  /\ LET i == Head(work_queue)
     IN  /\ threads' = [threads EXCEPT ![w] = [Idle EXCEPT !.pc = "get", !.i = i]]
         /\ futures' = [futures EXCEPT ![i] = "RUNNING"]
         /\ history' = [history EXCEPT ![i].started = @ + 1]
  /\ work_queue' = Tail(work_queue)
  /\ UNCHANGED << num_images, max_threads, folder_exists, disk, pc,
                  start_index, existing_hashes, next_i, stdout, run, disk0,
                  earlier_runs >>

\* Take as it would be if the worker read the head of the queue without
\* removing it
TakeWithoutRemoving(w) ==
  /\ w <= max_threads
  /\ threads[w].pc = "idle"
  /\ \A v \in 1..(w - 1) : threads[v].pc # "idle"
  /\ work_queue # <<>>
  /\ LET i == Head(work_queue)
     IN  /\ threads' = [threads EXCEPT ![w] = [Idle EXCEPT !.pc = "get", !.i = i]]
         /\ futures' = [futures EXCEPT ![i] = "RUNNING"]
         /\ history' = [history EXCEPT ![i].started = @ + 1]
  /\ UNCHANGED << num_images, max_threads, folder_exists, disk, pc,
                  start_index, existing_hashes, next_i, stdout, run, disk0,
                  earlier_runs, work_queue >>

\* a worker of the pool takes the oldest submitted task (thread.py,
\* _worker); the idle workers are interchangeable, the one of least number
\* stands for whichever of them the queue wakes
Take(w) ==
  /\ w <= max_threads
  /\ threads[w].pc = "idle"
  /\ \A v \in 1..(w - 1) : threads[v].pc # "idle"
  /\ work_queue # <<>>
  /\ LET i == Head(work_queue)
     IN  /\ threads' = [threads EXCEPT ![w] = [Idle EXCEPT !.pc = "get", !.i = i]]
         /\ futures' = [futures EXCEPT ![i] = "RUNNING"]
         /\ history' = [history EXCEPT ![i].started = @ + 1]
  /\ work_queue' = Tail(work_queue)
  /\ UNCHANGED << num_images, max_threads, folder_exists, disk, pc,
                  start_index, existing_hashes, next_i, stdout, run, disk0,
                  earlier_runs >>

\* lines 28-50: what the task holds once the response r has been received:
\* the file path, the digest of the body read from the stream, and the
\* response with its stream consumed
Received(r, i) ==
  LET read == IterContent(r.body, FALSE)
  IN  [pc |-> "check", i |-> i,
       file_path |-> FileName(r.headers, i),
       content_hash |-> Sha256(read.chunks),
       body |-> r.body, consumed |-> TRUE]

\* Fetch as it would be without the except clauses of lines 66-71 and with an
\* executor that loses the worker: the exception of a failed request ends
\* the thread and the future is never finished
FetchFailureEndsWorker(w) ==
  /\ threads[w].pc = "get"
  /\ LET i == threads[w].i
     IN  \/ /\ history' = [history EXCEPT ![i].requests = @ + 1,
                                          ![i].fetch_failed = TRUE]
            /\ threads' = [threads EXCEPT ![w].pc = "dead"]
            /\ UNCHANGED << stdout, futures >>
         \/ \E got \in { Received(r, i) : r \in Responses } :
              /\ threads' = [threads EXCEPT ![w] = got]
              /\ history' = [history EXCEPT ![i].requests = @ + 1,
                                            ![i].digest = got.content_hash]
              /\ UNCHANGED << stdout, futures >>
  /\ UNCHANGED << num_images, max_threads, folder_exists, disk, pc,
                  start_index, existing_hashes, next_i, work_queue, run,
                  disk0, earlier_runs >>

\* Fetch as it would be with the output file opened before the request is
\* made: a failed request leaves an empty file behind
FetchOpeningFirst(w) ==
  /\ threads[w].pc = "get"
  /\ LET i == threads[w].i
         path == DefaultName(i)
     IN  \/ /\ history' = [history EXCEPT ![i].requests = @ + 1,
                                          ![i].fetch_failed = TRUE,
                                          ![i].opened = @ \cup {path}]
            /\ disk' = [n \in DOMAIN disk \cup {path} |->
                          IF n = path THEN FileEntry(<<>>) ELSE disk[n]]
            /\ Returns(w, "Error downloading image")
         \/ \E got \in { Received(r, i) : r \in Responses } :
              /\ threads' = [threads EXCEPT ![w] = got]
              /\ history' = [history EXCEPT ![i].requests = @ + 1,
                                            ![i].digest = got.content_hash]
              /\ UNCHANGED << stdout, futures, disk >>
  /\ UNCHANGED << num_images, max_threads, folder_exists, pc,
                  start_index, existing_hashes, next_i, work_queue, run,
                  disk0, earlier_runs >>

\* lines 22-50 and 66-68: the request, the file name, the digest of the
\* streamed body; a RequestException (connection error, timeout, HTTP error
\* status, error while streaming) ends the task
Fetch(w) ==
  /\ threads[w].pc = "get"
  /\ LET i == threads[w].i
     IN  \/ /\ history' = [history EXCEPT ![i].requests = @ + 1,
                                          ![i].fetch_failed = TRUE]
            /\ Returns(w, "Error downloading image")
         \/ \E got \in { Received(r, i) : r \in Responses } :
              /\ threads' = [threads EXCEPT ![w] = got]
              /\ history' = [history EXCEPT ![i].requests = @ + 1,
                                            ![i].digest = got.content_hash]
                  /\ UNCHANGED << stdout, futures >>
  /\ UNCHANGED << num_images, max_threads, folder_exists, disk, pc,
                  start_index, existing_hashes, next_i, work_queue, run,
                  disk0, earlier_runs >>

\* Check as it would be if the file of a duplicate were saved all the same
\* before the task returns
CheckSavingDuplicate(w) ==
  /\ threads[w].pc = "check"
  /\ IF threads[w].content_hash \in existing_hashes
     THEN /\ Returns(w, "Skipping image")
          /\ disk' = [n \in DOMAIN disk \cup {threads[w].file_path} |->
                        IF n = threads[w].file_path
                        THEN FileEntry(threads[w].body) ELSE disk[n]]
     ELSE /\ threads' = [threads EXCEPT ![w].pc = "write"]
          /\ UNCHANGED << stdout, futures, disk >>
  /\ UNCHANGED << num_images, max_threads, folder_exists, pc,
                  start_index, existing_hashes, next_i, work_queue, history,
                  run, disk0, earlier_runs >>

\* Check as it would be if a duplicate's digest were discarded from the
\* shared set when the task is skipped
CheckDiscardingDigest(w) ==
  /\ threads[w].pc = "check"
  /\ IF threads[w].content_hash \in existing_hashes
     THEN /\ Returns(w, "Skipping image")
          /\ existing_hashes' = existing_hashes \ {threads[w].content_hash}
     ELSE /\ threads' = [threads EXCEPT ![w].pc = "write"]
          /\ UNCHANGED << stdout, futures, existing_hashes >>
  /\ UNCHANGED << num_images, max_threads, folder_exists, disk, pc,
                  start_index, next_i, work_queue, history,
                  run, disk0, earlier_runs >>

\* lines 52-54: the duplicate check
Check(w) ==
  /\ threads[w].pc = "check"
  /\ IF threads[w].content_hash \in existing_hashes
     THEN Returns(w, "Skipping image")
     ELSE /\ threads' = [threads EXCEPT ![w].pc = "write"]
          /\ UNCHANGED << stdout, futures >>
  /\ UNCHANGED << num_images, max_threads, folder_exists, disk, pc,
                  start_index, existing_hashes, next_i, work_queue, history,
                  run, disk0, earlier_runs >>

\* Write as it would be with the digest added to the shared set before the
\* file is written
WriteAddingFirst(w) ==
  /\ threads[w].pc = "write"
  /\ LET t == threads[w]
         i == t.i
         path == t.file_path
         is_dir == path \in DOMAIN disk /\ disk[path].kind = "dir"
         opened == [n \in DOMAIN disk \cup {path} |->
                      IF n = path THEN FileEntry(<<>>) ELSE disk[n]]
         second == IterContent(t.body, t.consumed)
     IN  /\ existing_hashes' = existing_hashes \cup {t.content_hash}
         /\ IF is_dir
            THEN /\ Returns(w, "An unexpected error occurred")
                 /\ UNCHANGED << disk, history >>
            ELSE /\ history' = [history EXCEPT
                      ![i].opened = @ \cup {path},
                      ![i].overwrote = @ \cup ({path} \cap DOMAIN disk),
                      ![i].added = ~second.raised]
                 /\ IF second.raised
                    THEN /\ disk' = opened
                         /\ Returns(w, "Error downloading image")
                    ELSE /\ disk' = [opened EXCEPT ![path] = FileEntry(second.chunks)]
                         /\ Returns(w, "Downloaded image")
  /\ UNCHANGED << num_images, max_threads, folder_exists, pc, start_index,
                  next_i, work_queue, run, disk0, earlier_runs >>

\* lines 56-64 and 66-71: the file is opened for writing (created, or
\* truncated when it exists), the body is iterated a second time and
\* written, the digest is added to the shared set.  The stream was consumed
\* by the hashing loop of line 48, so the second iter_content raises before
\* a chunk is written: the file stays empty, the handler of line 66 ends the
\* task, and lines 59 and 62-64 are not reached.
Write(w) ==
  /\ threads[w].pc = "write"
  /\ LET t == threads[w]
         i == t.i
         path == t.file_path
         is_dir == path \in DOMAIN disk /\ disk[path].kind = "dir"
         opened == [n \in DOMAIN disk \cup {path} |->
                      IF n = path THEN FileEntry(<<>>) ELSE disk[n]]
         second == IterContent(t.body, t.consumed)
     IN  IF is_dir
         THEN \* open raises IsADirectoryError (line 69)
              /\ Returns(w, "An unexpected error occurred")
              /\ UNCHANGED << disk, existing_hashes, history >>
         ELSE /\ history' = [history EXCEPT
                   ![i].opened = @ \cup {path},
                   ![i].overwrote = @ \cup ({path} \cap DOMAIN disk),
                   ![i].added = ~second.raised]
              /\ IF second.raised
                 THEN \* StreamConsumedError (line 66)
                      /\ disk' = opened
                      /\ Returns(w, "Error downloading image")
                      /\ UNCHANGED existing_hashes
                 ELSE /\ disk' = [opened EXCEPT ![path] = FileEntry(second.chunks)]
                      /\ existing_hashes' = existing_hashes \cup {t.content_hash}
                      /\ Returns(w, "Downloaded image")
  /\ UNCHANGED << num_images, max_threads, folder_exists, pc, start_index,
                  next_i, work_queue, run, disk0, earlier_runs >>

\* ------------------------------------------------------------ the program
\* the program is started again on the same folder
NewRun ==
  /\ pc \in {"done", "aborted"}
  /\ run < MaxRuns
  /\ run' = run + 1
  /\ num_images' \in NumImagesInputs
  /\ max_threads' \in MaxThreadsInputs
  /\ disk0' = disk
  /\ earlier_runs' = Append(earlier_runs,
                            [num_images |-> num_images, pc |-> pc,
                             start_index |-> start_index, disk0 |-> disk0,
                             history |-> history])
  /\ pc' = "start"
  /\ start_index' = 0
  /\ existing_hashes' = {}
  /\ next_i' = 0
  /\ work_queue' = <<>>
  /\ futures' = NoFunction
  /\ threads' = [w \in Workers |-> Idle]
  /\ stdout' = NoFunction
  /\ history' = NoFunction
  /\ UNCHANGED << folder_exists, disk >>

Next ==
  \/ MakeDirs
  \/ Scan
  \/ CreatePool
  \/ Submit
  \/ Submitted
  \/ Complete
  \/ \E w \in Workers : Take(w)
  \/ \E w \in Workers : Fetch(w)
  \/ \E w \in Workers : Check(w)
  \/ \E w \in Workers : Write(w)

Spec == Init /\ [][Next]_vars

\* The calling thread and every worker thread keep being scheduled, and
\* every request returns or times out (timeout=10, line 23).
Caller == MakeDirs \/ Scan \/ CreatePool \/ Submit \/ Submitted \/ Complete

Worker(w) == Take(w) \/ Fetch(w) \/ Check(w) \/ Write(w)

Fairness == WF_vars(Caller) /\ \A w \in Workers : WF_vars(Worker(w))

\* termination does not depend on what the folder holds beyond a file that
\* makes a fetched body a duplicate: the runs are started on an empty
\* folder and on a folder holding image_1.webp
InitLive ==
  /\ Init
  /\ disk \in Folders({DefaultName(1)}, {FileEntry(<<"a">>)}, MaxExisting)

SpecLive == InitLive /\ [][Next]_vars /\ Fairness

\* the start-up part of a run (lines 86-126) on a wider range of folders
InitScan ==
  /\ num_images = 0
  /\ max_threads = 1
  /\ folder_exists \in BOOLEAN
  /\ disk \in Folders(ScanNames, ScanEntries, MaxScanFiles)
  /\ (~folder_exists => disk = NoFunction)
  /\ run = 1
  /\ disk0 = disk
  /\ earlier_runs = <<>>
  /\ InitRun

NextScan == MakeDirs \/ Scan

SpecScan == InitScan /\ [][NextScan]_vars

\* runs of the program one after the other on the same folder
NextResume == Next \/ NewRun

SpecResume == Init /\ [][NextResume]_vars

\* ---------------------------------------------------------- the command line
\* what the user may type at a prompt of input() (lines 144, 152): integers
\* in decimal, with or without blanks around them, and text that int()
\* refuses
InputTexts ==
  { IntToStr(n) : n \in NumImagesInputs \cup MaxThreadsInputs }
  \cup { <<>>, <<"x">>, <<"1", ".", "5">>, <<" ", "1", " ">> }

\* lines 142-147: the count is asked for until int() accepts the text; any
\* integer ends the loop
AskCount ==
  /\ pc = "ask_count"
  /\ \E text \in InputTexts :
       IF IsIntLiteral(text)
       THEN num_images' = ParseInt(text) /\ pc' = "ask_threads"
       ELSE UNCHANGED << num_images, pc >>   \* ValueError: asked again
  /\ UNCHANGED << max_threads, folder_exists, disk, start_index,
                  existing_hashes, next_i, work_queue, futures, threads,
                  stdout, history, run, disk0, earlier_runs >>

\* lines 150-160: the number of threads is asked for until int() accepts
\* the text and the integer is positive; then the coordinator is called
AskThreads ==
  /\ pc = "ask_threads"
  /\ \E text \in InputTexts :
       IF IsIntLiteral(text)
       THEN /\ max_threads' = ParseInt(text)
            /\ pc' = IF ParseInt(text) > 0 THEN "start" ELSE "ask_threads"
       ELSE UNCHANGED << max_threads, pc >>  \* ValueError: asked again
  /\ UNCHANGED << num_images, folder_exists, disk, start_index,
                  existing_hashes, next_i, work_queue, futures, threads,
                  stdout, history, run, disk0, earlier_runs >>

\* the program started from the command line: nothing has been typed yet
InitMain ==
  /\ num_images = 0
  /\ max_threads = 0
  /\ folder_exists \in BOOLEAN
  /\ disk \in Folders(InitialNames, InitialEntries, MaxExisting)
  /\ (~folder_exists => disk = NoFunction)
  /\ run = 1
  /\ disk0 = disk
  /\ earlier_runs = <<>>
  /\ pc = "ask_count"
  /\ start_index = 0
  /\ existing_hashes = {}
  /\ next_i = 0
  /\ work_queue = <<>>
  /\ futures = NoFunction
  /\ threads = [w \in Workers |-> Idle]
  /\ stdout = NoFunction
  /\ history = NoFunction

NextMain == AskCount \/ AskThreads \/ Next

SpecMain == InitMain /\ [][NextMain]_vars


\* a run on a folder that holds a file of any of the names the scan is
\* checked on
InitAnyFolder ==
  /\ num_images \in NumImagesInputs
  /\ max_threads \in MaxThreadsInputs
  /\ folder_exists = TRUE
  /\ disk \in Folders(ScanNames, {FileEntry(<<"a">>)}, MaxExisting)
  /\ run = 1
  /\ disk0 = disk
  /\ earlier_runs = <<>>
  /\ InitRun

SpecAnyFolder == InitAnyFolder /\ [][Next]_vars

\* ------------------------------------------------------------ properties
Dispatched == DOMAIN futures

Settled(i) == i \in Dispatched /\ futures[i] = "FINISHED"

\* the task of index i opened a file of the folder for writing
Wrote(i) == history[i].opened # {}

\* C1: within a run, of any two tasks whose response bodies have the same
\* digest at most one writes a file, whatever the interleaving
C1_AtMostOneCopyPerDigest ==
  \A i, j \in Dispatched :
    (i # j /\ history[i].digest # None /\ history[i].digest = history[j].digest)
      => ~(Wrote(i) /\ Wrote(j))

\* every fetch of the run succeeded, and the payloads differ from each other
\* and from every file the run found in the folder
AllFetchedDistinctNovel ==
  /\ \A i \in Dispatched : history[i].digest # None
  /\ \A i, j \in Dispatched : i # j => history[i].digest # history[j].digest
  /\ \A i \in Dispatched :
       \A f \in DOMAIN disk0 :
         disk0[f].kind = "file" => Sha256(disk0[f].bytes) # history[i].digest

NewFiles == DOMAIN disk \ DOMAIN disk0

\* C2: when every fetch succeeds and the N payloads are pairwise distinct
\* and not on disk, the run ends with exactly N new files, each task having
\* written one path of its own (stated for a folder that holds regular
\* files only)
C2_DistinctPayloadsGiveNNewFiles ==
  (/\ pc = "done"
   /\ \A f \in DOMAIN disk0 : disk0[f].kind = "file"
   /\ AllFetchedDistinctNovel) =>
    /\ Cardinality(NewFiles) = Cardinality(Dispatched)
    /\ \A i \in Dispatched : Cardinality(history[i].opened) = 1
    /\ \A i, j \in Dispatched :
         i # j => history[i].opened \cap history[j].opened = {}

\* the task of index i ended in an exception handler without having opened
\* its file: its request failed (line 66) or open() raised (line 69)
FailedBeforeWrite(i) ==
  \/ history[i].fetch_failed
  \/ (i \in DOMAIN stdout /\ stdout[i] = "An unexpected error occurred")

\* the content task i fetched is new: no file of the folder held it when the
\* run started and no other task of the run fetched it
NovelContent(i) ==
  /\ history[i].digest # None
  /\ \A f \in DOMAIN disk0 :
       disk0[f].kind = "file" /\ disk0[f].readable
         => Sha256(disk0[f].bytes) # history[i].digest
  /\ \A j \in Dispatched \ {i} : history[j].digest # history[i].digest

C3_FailedTaskLeavesNoTrace ==
  \A i \in Dispatched :
    history[i].fetch_failed =>
      /\ history[i].opened = {}
      /\ ~history[i].added
      /\ history[i].digest = None
      /\ Settled(i)
      /\ stdout[i] = "Error downloading image"

C3_OthersAreWritten ==
  pc = "done" =>
    \A j \in Dispatched :
      (~FailedBeforeWrite(j) /\ NovelContent(j)) =>
        /\ Wrote(j)
        /\ history[j].opened \subseteq DOMAIN disk
        /\ \A f \in history[j].opened : disk[f].kind = "file"

C3_FailingStepChangesNothingShared ==
  \A i \in Dispatched :
    (i \in DOMAIN history' /\ ~history[i].fetch_failed /\ history'[i].fetch_failed)
      => UNCHANGED << disk, existing_hashes, work_queue >>

Count(n) == IF n < 0 THEN 0 ELSE n

\* over the first run and the current, second one the source never failed,
\* never returned an empty body and never returned content it had returned
\* before or that the folder held when the first run started
SourceNeverFailsNorRepeats ==
  LET first == earlier_runs[1]
      tasks == {<<1, i>> : i \in DOMAIN first.history}
                 \cup {<<2, i>> : i \in Dispatched}
      digest(t) == IF t[1] = 1 THEN first.history[t[2]].digest
                   ELSE history[t[2]].digest
  IN  /\ \A t \in tasks : digest(t) # None /\ digest(t) # Sha256(<<>>)
      /\ \A t, u \in tasks : t # u => digest(t) # digest(u)
      /\ \A t \in tasks : \A f \in DOMAIN first.disk0 :
           first.disk0[f].kind = "file"
             => Sha256(first.disk0[f].bytes) # digest(t)

\* C4: a run of N items followed by a run of M items on the same folder,
\* with a source that never repeats and never fails, leaves what one run of
\* N + M items leaves: the second run's indices continue after the first
\* run's, no file is overwritten and N + M files are new (stated for a
\* folder that is empty before the first run, N >= 1 and M >= 1)
C4_ResumeEqualsSingleRun ==
  (/\ run = 2 /\ pc = "done"
   /\ earlier_runs[1].pc = "done"
   /\ earlier_runs[1].disk0 = NoFunction
   /\ earlier_runs[1].num_images >= 1 /\ num_images >= 1
   /\ SourceNeverFailsNorRepeats) =>
    LET first == earlier_runs[1]
        n == Count(first.num_images)
        m == Count(num_images)
    IN  /\ start_index = first.start_index + n
        /\ \A i \in DOMAIN first.history : first.history[i].overwrote = {}
        /\ \A i \in Dispatched : history[i].overwrote = {}
        /\ Cardinality(DOMAIN disk \ DOMAIN first.disk0) = n + m

\* the start-up scan of the current run is over
Scanned == pc \notin {"ask_count", "ask_threads", "start", "scan", "aborted"}

\* name is image_<integer>.webp, the integer being all the text between
\* "image_" and ".webp"
MatchesPattern(f) ==
  /\ StartsWith(f, <<"image", "_">>)
  /\ EndsWith(f, <<".", "webp">>)
  /\ Len(f) >= 5
  /\ IsIntLiteral(SubSeq(f, 3, Len(f) - 2))

PatternIndices(d) ==
  { ParseInt(SubSeq(f, 3, Len(f) - 2)) : f \in { g \in DOMAIN d : MatchesPattern(g) } }

LeadingTexts(f) ==
  { SubSeq(f, 3, k - 1) :
      k \in { m \in 3..Len(f) :
                /\ f[m] \in {".", "_"}
                /\ \A j \in 3..(m - 1) : f[j] \notin {".", "_"} } }

LeadingIndices(d) ==
  { ParseInt(t) :
      t \in { u \in UNION { LeadingTexts(f) :
                              f \in { g \in DOMAIN d :
                                        /\ StartsWith(g, <<"image", "_">>)
                                        /\ EndsWith(g, <<".", "webp">>) } } :
              IsIntLiteral(u) } }

ReadableFiles(d) == { f \in DOMAIN d : d[f].kind = "file" /\ d[f].readable }

\* C6: the digest set the scan produces is exactly the set of digests of
\* the readable regular files of the folder, whatever their names;
\* unreadable files and directories add nothing, an empty folder gives the
\* empty set
C6_DigestsOfAllReadableFiles ==
  Scanned =>
    /\ existing_hashes = { Sha256(disk0[f].bytes) : f \in ReadableFiles(disk0) }
    /\ None \notin existing_hashes
    /\ (DOMAIN disk0 = {} => existing_hashes = {})

\* a scanned folder with a readable file whose name is not an image name, an
\* unreadable file and a directory: only the first is in the set
C6_Witness ==
  /\ Scanned
  /\ \E f, g, h \in DOMAIN disk0 :
       /\ f = <<"not", "_", "a", "_", "number", ".", "webp">>
       /\ f \in ReadableFiles(disk0)
       /\ disk0[g].kind = "file" /\ ~disk0[g].readable
       /\ disk0[h].kind = "dir"
       /\ existing_hashes = {Sha256(disk0[f].bytes)}
       /\ Sha256(disk0[g].bytes) \notin existing_hashes

\* the indices of range(start_index, start_index + num_images)
Requested == start_index..(start_index + Count(num_images) - 1)

Queued == { work_queue[k] : k \in 1..Len(work_queue) }

Held(w) == IF threads[w].pc = "idle" THEN {} ELSE {threads[w].i}

\* C7: exactly one task is dispatched for each index of [s, s + c) and none
\* for another index; a task is run by one worker, once, makes one request
\* and is not run again after a failure or a duplicate
C7_OneTaskPerIndexRunOnce ==
  /\ Scanned => Dispatched \subseteq Requested
  /\ pc \in {"wait", "done"} => Dispatched = Requested
  /\ \A k, l \in 1..Len(work_queue) : k # l => work_queue[k] # work_queue[l]
  /\ \A v, w \in Workers : v # w => Held(v) \cap Held(w) = {}
  /\ \A i \in Dispatched :
       /\ history[i].started <= 1 /\ history[i].requests <= 1
       /\ history[i].requests <= history[i].started
       /\ i \in Queued <=> futures[i] = "PENDING"
       /\ (\E w \in Workers : i \in Held(w)) <=> futures[i] = "RUNNING"
       /\ futures[i] = "PENDING" => history[i].started = 0
       /\ Settled(i) => history[i].started = 1 /\ history[i].requests = 1

\* a finished run of two tasks from index 2 on, one failed and one skipped
\* as a duplicate, each run once with one request
C7_Witness ==
  /\ pc = "done"
  /\ start_index = 2 /\ Dispatched = {2, 3}
  /\ history[2].fetch_failed
  /\ stdout[3] = "Skipping image"
  /\ \A i \in Dispatched : history[i].started = 1 /\ history[i].requests = 1

C8_AllSettledAtReturn ==
  pc = "done" =>
    /\ Dispatched = Requested
    /\ \A i \in Dispatched :
         /\ Settled(i)
         /\ i \in DOMAIN stdout
         /\ stdout[i] \in {"Downloaded image", "Skipping image",
                           "Error downloading image",
                           "An unexpected error occurred"}
    /\ work_queue = <<>>
    /\ \A w \in Workers : threads[w].pc = "idle"

C8_NothingHappensAfterReturn ==
  pc = "done" =>
    /\ disk' = disk
    /\ existing_hashes' = existing_hashes
    /\ futures' = futures
    /\ threads' = threads
    /\ stdout' = stdout

\* C8: the coordinator returns only when every dispatched task has settled
\* (downloaded, duplicate or failed); after it has returned no task runs and
\* no file is written and no digest inserted
C8_ReturnsAfterAllSettled ==
  /\ []C8_AllSettledAtReturn
  /\ [][C8_NothingHappensAfterReturn]_vars

\* the coordinator has returned from a run of two tasks, one skipped as a
\* duplicate and one that opened its file
C8_Witness ==
  /\ pc = "done"
  /\ Cardinality(Dispatched) = 2
  /\ \E i, j \in Dispatched :
       /\ stdout[i] = "Skipping image"
       /\ Wrote(j) /\ Settled(j)

C9_RunComplete ==
  /\ pc = "done"
  /\ Dispatched = Requested
  /\ \A i \in Dispatched : Settled(i)

\* a task that has not started stays queued until a worker takes it: no
\* step, and no failure of another task, cancels it
C9_PendingStaysQueued ==
  \A i \in Dispatched :
    futures[i] = "PENDING" =>
      /\ i \in DOMAIN futures'
      /\ futures'[i] \in {"PENDING", "RUNNING"}
      /\ (futures'[i] = "PENDING" => \E k \in 1..Len(work_queue') : work_queue'[k] = i)

\* C9: with threads scheduled fairly and requests that return or time out,
\* once the pool exists every task of the range is dispatched and settles
\* and the run completes, whatever the mix of successes, duplicates and
\* failures; no failure cancels a task that has not started
C9_EveryRunCompletes ==
  /\ (pc = "submit") ~> C9_RunComplete
  /\ [][C9_PendingStaysQueued]_vars

\* a one-worker run that completed although its first task failed: the
\* second task, not started when the first failed, ran and opened its file
C9_Witness ==
  /\ C9_RunComplete
  /\ max_threads = 1
  /\ \E i, j \in Dispatched :
       i < j /\ history[i].fetch_failed /\ history[j].started = 1 /\ Wrote(j)

Running == { i \in Dispatched : futures[i] = "RUNNING" }

Busy == { w \in Workers : threads[w].pc # "idle" }

C10_AtMostMaxThreadsRunning ==
  /\ Cardinality(Running) <= max_threads
  /\ Cardinality(Running) = Cardinality(Busy)
  /\ \A w \in Busy : w <= max_threads /\ threads[w].i \in Running

\* the steps of a task on its worker follow each other (request and hash,
\* duplicate check, write), and the worker takes a task only when idle and
\* lets go of a task only when that task is finished
C10_OneTaskAtATimePerWorker ==
  \A w \in Workers :
    /\ threads'[w].pc # threads[w].pc =>
         << threads[w].pc, threads'[w].pc >> \in
           { <<"idle", "get">>, <<"get", "check">>, <<"get", "idle">>,
             <<"check", "write">>, <<"check", "idle">>, <<"write", "idle">> }
    /\ (threads[w].pc # "idle" /\ threads'[w].pc # "idle")
         => threads'[w].i = threads[w].i
    /\ (threads[w].pc # "idle" /\ threads'[w].pc = "idle")
         => futures'[threads[w].i] = "FINISHED"

\* C10: at every moment at most max_threads tasks have started and not
\* settled, and a worker starts its next task only after its current task
\* has finished its fetch, hash, duplicate check and write
C10_BoundedConcurrency ==
  /\ []C10_AtMostMaxThreadsRunning
  /\ [][C10_OneTaskAtATimePerWorker]_vars

\* a pool of one worker: a task waits in the queue while the worker is
\* about to write the file of the task before it
C10_Witness ==
  /\ max_threads = 1
  /\ work_queue # <<>>
  /\ \E w \in Workers : threads[w].pc = "write" /\ threads[w].i < Head(work_queue)

\* the coordinator has been called (line 160)
Invoked == pc \notin {"ask_count", "ask_threads"}

\* C11: the coordinator is never invoked with a count <= 0 or a worker-pool
\* size <= 0: the prompts ask again on every non-integer or non-positive
\* value
C11_InvokedWithPositiveArguments ==
  Invoked => num_images > 0 /\ max_threads > 0

\* the task of index i returned as a duplicate
Skipped(i) == i \in DOMAIN stdout /\ stdout[i] = "Skipping image"

C12_SkippedTaskWroteNothing ==
  \A i \in Dispatched :
    Skipped(i) =>
      /\ history[i].opened = {}
      /\ ~history[i].added
      /\ history[i].digest \in existing_hashes

C12_DuplicateStepChangesNothing ==
  \A w \in Workers :
    (/\ threads[w].pc = "check"
     /\ threads[w].content_hash \in existing_hashes
     /\ threads'[w] # threads[w])
      => /\ disk' = disk
         /\ existing_hashes' = existing_hashes
         /\ threads'[w].pc = "idle"
         /\ threads[w].i \in DOMAIN stdout'
         /\ stdout'[threads[w].i] = "Skipping image"

\* C12: a task that finds the digest of what it fetched in the shared set
\* when it checks writes no file and leaves the folder and the digest set
\* as they are; it returns as a duplicate
C12_DuplicateIsDiscarded ==
  /\ []C12_SkippedTaskWroteNothing
  /\ [][C12_DuplicateStepChangesNothing]_vars

\* a finished run in which a task fetched the content of a file the folder
\* held at start-up and was skipped, the folder being as the run found it
C12_Witness ==
  /\ pc = "done"
  /\ \E i \in Dispatched :
       /\ Skipped(i)
       /\ history[i].digest \in ExistingHashes(disk0)
       /\ history[i].digest # Sha256(<<>>)
  /\ disk = disk0

\* C13: no file that exists in the folder when a run starts is overwritten,
\* truncated or deleted by that run (stated for the second of two runs on a
\* folder that was empty before the first: the files the first run left are
\* all there, as they were, and no task has opened one of them for writing)
C13_ExistingFilesAreKept ==
  (run = 2 /\ earlier_runs[1].disk0 = NoFunction) =>
    /\ \A f \in DOMAIN disk0 : f \in DOMAIN disk /\ disk[f] = disk0[f]
    /\ \A i \in Dispatched : history[i].opened \cap DOMAIN disk0 = {}

\* C14: every file written by the task of index i is named image_<i>.webp,
\* whatever headers the response carries, and the start-up scan of a later
\* run reads the index i from it
C14_FilesAreNamedByIndex ==
  \A i \in Dispatched :
    \A f \in history[i].opened :
      /\ f = DefaultName(i)
      /\ f \in ExistingFiles(disk)
      /\ IsIntLiteral(IndexText(f)) /\ ParseInt(IndexText(f)) = i

\* C15: the count given to a run is a total that includes the images
\* already present: with images up to index k in the folder
\* (k = start_index - 1) a run of num_images = N fetches the N - k images
\* still missing, none when N <= k (stated for a folder that holds regular
\* files only)
C15_CountIsATotal ==
  (pc \in {"wait", "done"} /\ \A f \in DOMAIN disk0 : disk0[f].kind = "file") =>
    Cardinality(Dispatched) = Count(num_images - (start_index - 1))

C16_ScanDigestsStay ==
  Scanned => ExistingHashes(disk0) \subseteq existing_hashes

C16_NoStepRemovesADigest == existing_hashes \subseteq existing_hashes'

\* C16: the shared digest set only grows during a run: no step removes a
\* digest, and every digest the start-up scan found is in the set until the
\* run ends
C16_DigestSetOnlyGrows ==
  /\ []C16_ScanDigestsStay
  /\ [][C16_NoStepRemovesADigest]_vars

\* a finished run whose scan found a digest: one task was skipped on it,
\* another task went through its write, and the digest is still in the set
C16_Witness ==
  /\ pc = "done"
  /\ ExistingHashes(disk0) # {}
  /\ ExistingHashes(disk0) \subseteq existing_hashes
  /\ \E i, j \in Dispatched :
       /\ Skipped(i) /\ history[i].digest \in ExistingHashes(disk0)
       /\ Wrote(j) /\ Settled(j)

C17_StartupDoneWhenDispatched ==
  Dispatched # {} =>
    /\ folder_exists
    /\ Scanned
    /\ start_index = StartIndex(disk0)
    /\ ExistingHashes(disk0) \subseteq existing_hashes

C17_AbortLeavesNothing ==
  (pc = "aborted" /\ ~folder_exists) =>
    /\ Dispatched = {}
    /\ work_queue = <<>>
    /\ history = NoFunction
    /\ disk = NoFunction

C17_NothingRunsDuringStartup ==
  pc \in {"start", "scan", "pool"} =>
    UNCHANGED << disk, work_queue, futures, threads, history >>

\* C17: no task is dispatched before the folder exists and the start-up
\* scan (next index and digest set) is over; when the folder cannot be
\* created the run aborts with no task dispatched and no file written
C17_StartupBeforeDispatch ==
  /\ [](C17_StartupDoneWhenDispatched /\ C17_AbortLeavesNothing)
  /\ [][C17_NothingRunsDuringStartup]_vars

\* a run of at least one image and one thread that aborted because the
\* folder could not be created
C17_Witness ==
  /\ pc = "aborted"
  /\ ~folder_exists
  /\ num_images >= 1 /\ max_threads >= 1

\* C18: the file a task wrote holds exactly the bytes of the response body
\* whose digest the task computed, not an empty, partial or different byte
\* sequence, the body being a stream that the hashing loop has read once
\* before the write begins (stated of every task that has returned after
\* opening its file, in a run on a folder that was empty)
C18_WrittenFileHoldsTheBody ==
  \A i \in Dispatched :
    (disk0 = NoFunction /\ Settled(i) /\ Wrote(i)) =>
      \A f \in history[i].opened :
        /\ f \in DOMAIN disk
        /\ disk[f] = FileEntry(history[i].digest.sha256)

\* C19: every index dispatched by a run is an integer >= 1, whatever the
\* folder holds at start-up, names image_<n>.webp with n zero or negative
\* included
C19_IndicesArePositive ==
  \A i \in Dispatched : i >= 1

\* the task of index i opened its file and ended in an exception handler
WriteFailed(i) ==
  /\ Settled(i) /\ Wrote(i)
  /\ stdout[i] \in {"Error downloading image", "An unexpected error occurred"}

C20_TaskDigestsAreOfWrittenFiles ==
  Scanned =>
    \A h \in existing_hashes \ ExistingHashes(disk0) :
      \E i \in Dispatched :
        /\ history[i].added /\ history[i].digest = h
        /\ stdout[i] = "Downloaded image"
        /\ \E f \in history[i].opened :
             f \in DOMAIN disk /\ disk[f] = FileEntry(h.sha256)

C20_FailedWriteLeftNoDigest ==
  \A i \in Dispatched :
    (i \in DOMAIN stdout /\ stdout[i] # "Downloaded image") => ~history[i].added

C20_FailingWriteAddsNothing ==
  \A w \in Workers :
    (/\ threads[w].pc = "write" /\ threads'[w].pc = "idle"
     /\ stdout'[threads[w].i] # "Downloaded image")
      => existing_hashes' = existing_hashes

\* C20: a task inserts its digest only after its file write has completed:
\* every digest of the set that the start-up scan did not find is the
\* digest of a file this run finished writing, and a task whose write fails
\* leaves the set without its digest
C20_DigestAddedAfterWrite ==
  /\ [](C20_TaskDigestsAreOfWrittenFiles /\ C20_FailedWriteLeftNoDigest)
  /\ [][C20_FailingWriteAddsNothing]_vars

\* a finished run in which a task's write failed after it had opened its
\* file, and the digest of what it fetched is not in the set
C20_Witness ==
  /\ pc = "done"
  /\ \E i \in Dispatched :
       /\ WriteFailed(i)
       /\ history[i].digest # None
       /\ history[i].digest \notin existing_hashes

====
